---- MODULE Spec2Model ----
(***************************************************************************)
(* Model of src/src/triage_and_score.py: the match-percentage parser       *)
(* _parse_match and the table transform triage_and_score.                  *)
(*                                                                         *)
(* A table (pandas DataFrame) is a record [columns, rows]: columns is the  *)
(* sequence of column labels in order, rows the sequence of rows in order. *)
(* A row is [idx, cells]: idx is the label the row carries in the index of *)
(* the caller's table (its original position), cells a function from the   *)
(* column labels to cell values.  reset_index(drop=True) and ignore_index   *)
(* renumber the rows of the tables returned; the model keeps idx on them,   *)
(* so that a returned row can be traced to the caller's row it came from,   *)
(* and the place of a row in its table is its place in the sequence.       *)
(*                                                                         *)
(* A cell value is a record [t, n, d, s]:                                  *)
(*   t = "none"   None                                                     *)
(*   t = "nan"    float NaN / NaT                                          *)
(*   t = "int"    the integer n                                            *)
(*   t = "float"  the number n / d  (d > 0)                                *)
(*   t = "str"    the text s, a sequence of one-character strings          *)
(*   t = "date"   the timestamp day n, tick d of that day; as an input     *)
(*                cell it stands for a text that pandas parses to it       *)
(*   t = "bool"   n = 1 for True, n = 0 for False                          *)
(* Floating-point numbers are modelled as exact rationals n / d.           *)
(***************************************************************************)
EXTENDS Integers, Sequences, FiniteSets, TLC

VARIABLES
    df,            \* the table the caller passes to triage_and_score
    now,           \* the clock reading pd.Timestamp.today() returns
    pc,            \* "start", "returned", "raised"; "parse", "parsed"
    work,          \* the local df of triage_and_score when it ends
    candidates,    \* the local candidates (sorted) when it returns
    clean,         \* the three tables returned
    dirty,
    out_of_scope,
    value,         \* the argument of a direct call of _parse_match
    parsed         \* its result

vars == <<df, now, pc, work, candidates, clean, dirty, out_of_scope, value, parsed>>

---------------------------------------------------------------------------
(* Cell values *)

None == [t |-> "none", n |-> 0, d |-> 1, s |-> <<>>]
NaN == [t |-> "nan", n |-> 0, d |-> 1, s |-> <<>>]
IntCell(k) == [t |-> "int", n |-> k, d |-> 1, s |-> <<>>]
FloatCell(k, m) == [t |-> "float", n |-> k, d |-> m, s |-> <<>>]
StrCell(text) == [t |-> "str", n |-> 0, d |-> 1, s |-> text]
DateCell(day, tick) == [t |-> "date", n |-> day, d |-> tick, s |-> <<>>]
BoolCell(b) == [t |-> "bool", n |-> (IF b THEN 1 ELSE 0), d |-> 1, s |-> <<>>]

\* pd.isna / Series.isna / Series.notna on one element
isna(c) == c.t \in {"none", "nan"}
notna(c) == ~isna(c)

IsNumber(c) == c.t \in {"int", "float"}

\* comparisons of numbers n / d with d > 0; every comparison with a missing
\* value is False
NumEq(a, b) == IsNumber(a) /\ IsNumber(b) /\ a.n * b.d = b.n * a.d
NumLt(a, b) == IsNumber(a) /\ IsNumber(b) /\ a.n * b.d < b.n * a.d
NumGe(a, b) == IsNumber(a) /\ IsNumber(b) /\ a.n * b.d >= b.n * a.d

---------------------------------------------------------------------------
(* Python text operations used by _parse_match *)

Digits == <<"0", "1", "2", "3", "4", "5", "6", "7", "8", "9">>
IsDigit(c) == \E i \in 1..Len(Digits) : Digits[i] = c
DigitVal(c) == (CHOOSE i \in 1..Len(Digits) : Digits[i] = c) - 1

IsSpace(c) == c = " "

RECURSIVE LStrip(_)
LStrip(s) == IF s # <<>> /\ IsSpace(Head(s)) THEN LStrip(Tail(s)) ELSE s

RECURSIVE RStrip(_)
RStrip(s) ==
    IF s # <<>> /\ IsSpace(s[Len(s)]) THEN RStrip(SubSeq(s, 1, Len(s) - 1)) ELSE s

\* str.strip()
Strip(s) == RStrip(LStrip(s))

\* str.replace(c, '')
RemoveChar(s, c) == SelectSeq(s, LAMBDA x : x # c)

LowerChar(c) == CASE c = "V" -> "v" [] c = "A" -> "a" [] c = "R" -> "r" [] OTHER -> c

\* str.lower()
Lower(s) == [i \in 1..Len(s) |-> LowerChar(s[i])]

\* str.startswith(p)
StartsWith(s, p) == Len(s) >= Len(p) /\ SubSeq(s, 1, Len(p)) = p

RECURSIVE Pow10(_)
Pow10(k) == IF k = 0 THEN 1 ELSE 10 * Pow10(k - 1)

RECURSIVE DigitsValue(_)
DigitsValue(s) ==
    IF s = <<>> THEN 0 ELSE 10 * DigitsValue(SubSeq(s, 1, Len(s) - 1)) + DigitVal(s[Len(s)])

RECURSIVE NatStr(_)
NatStr(k) == IF k < 10 THEN <<Digits[k + 1]>> ELSE NatStr(k \div 10) \o <<Digits[(k % 10) + 1]>>

\* str(value) for the values a cell can hold: a text is itself, an int prints
\* its digits, a whole float prints its digits and ".0"
PyStr(v) ==
    CASE v.t = "str" -> v.s
      [] v.t = "int" -> NatStr(v.n)
      [] v.t = "float" -> NatStr(v.n \div v.d) \o <<".", "0">>
      [] v.t = "bool" -> IF v.n = 1 THEN <<"T", "r", "u", "e">> ELSE <<"F", "a", "l", "s", "e">>
      [] OTHER -> <<"N", "o", "n", "e">>

ValueError == [t |-> "ValueError", n |-> 0, d |-> 1, s |-> <<>>]

\* float(text) on a text of digits, '.', blanks and letters: surrounding blanks
\* are ignored; what is left must be digits with at most one '.', and at least
\* one digit; anything else raises ValueError
PyFloat(text) ==
    LET t == Strip(text)
        dots == {i \in 1..Len(t) : t[i] = "."}
        wellFormed ==
            /\ \A i \in 1..Len(t) : IsDigit(t[i]) \/ t[i] = "."
            /\ Cardinality(dots) <= 1
            /\ \E i \in 1..Len(t) : IsDigit(t[i])
        fracLen == IF dots = {} THEN 0 ELSE Len(t) - (CHOOSE i \in dots : TRUE)
    IN  IF wellFormed
        THEN FloatCell(DigitsValue(RemoveChar(t, ".")), Pow10(fracLen))
        ELSE ValueError

\* the slip of leaving the percent sign in
ParseTextKeepPercent(v) == RemoveChar(Strip(PyStr(v)), ",")

\* str(value).strip().replace('%', '').replace(',', '')
ParseText(v) == RemoveChar(RemoveChar(Strip(PyStr(v)), "%"), ",")

_parse_match(v) ==
    IF v.t = "none" \/ (v.t \in {"float", "nan"} /\ isna(v))
    THEN None
    ELSE LET text == ParseText(v)
         IN  IF text = <<>> \/ StartsWith(Lower(text), <<"v", "a", "r">>)
             THEN None
             ELSE LET f == PyFloat(text)
                  IN  IF f = ValueError THEN None ELSE f

---------------------------------------------------------------------------
(* Direct calls of _parse_match on bounded texts *)

MaxLen == 4

Alphabet == {"3", "0", ".", "%", ",", " ", "V", "a", "r", "x"}

Texts == UNION {[1..k -> Alphabet] : k \in 0..MaxLen}

LongTexts ==
    {<<"v", "a", "r">>, <<"V", "A", "R", ".">>, <<" ", "V", "a", "r", ".", " ">>,
     <<"3", "0", ".", "0", "%">>, <<" ", "3", "3", ".", "0", " ", "%">>,
     <<"3", ",", "0", "0", "0">>, <<"3", "2", ".", "9", "9", "%">>}

ParseValues ==
    {None, NaN, IntCell(30), IntCell(33), FloatCell(30, 1), FloatCell(40, 1)}
        \cup {StrCell(s) : s \in Texts \cup LongTexts}

EmptyTable == [columns |-> <<>>, rows |-> <<>>]

InitParse ==
    /\ value \in ParseValues
    /\ parsed = None
    /\ pc = "parse"
    /\ df = EmptyTable
    /\ now = DateCell(0, 0)
    /\ work = EmptyTable
    /\ candidates = EmptyTable
    /\ clean = EmptyTable
    /\ dirty = EmptyTable
    /\ out_of_scope = EmptyTable

ParseMatch ==
    /\ pc = "parse"
    /\ parsed' = _parse_match(value)
    /\ pc' = "parsed"
    /\ UNCHANGED <<value, df, now, work, candidates, clean, dirty, out_of_scope>>

NextParse == ParseMatch

SpecParse == InitParse /\ [][NextParse]_vars

---------------------------------------------------------------------------
(* Tables *)

Range(f) == {f[i] : i \in DOMAIN f}

\* a function over 1..n as the tuple of its values (the same sequence)
Seq1(f) == <<>> \o f

HasCol(t, col) == col \in Range(t.columns)

\* a Series, and a scalar (what df.get gives for a column that is not there)
Series(elems) == [kind |-> "Series", elems |-> Seq1(elems)]
Scalar(c) == [kind |-> "scalar", elems |-> <<c>>]

\* the Series df[col]
Col(t, col) == Series([i \in 1..Len(t.rows) |-> t.rows[i].cells[col]])

\* df.get(col): the column, or the scalar None when there is no such column
Get(t, col) == IF HasCol(t, col) THEN Col(t, col) ELSE Scalar(None)

\* element-wise application of f to a Series or to a scalar
Map(x, f(_)) == [kind |-> x.kind, elems |-> Seq1([i \in 1..Len(x.elems) |-> f(x.elems[i])])]

\* df[col] = x: a scalar is broadcast to every row; an existing column keeps
\* its place, a new one goes last
SetCol(t, col, x) ==
    [columns |-> IF HasCol(t, col) THEN t.columns ELSE Append(t.columns, col),
     rows |-> Seq1([i \in 1..Len(t.rows) |->
                 [idx |-> t.rows[i].idx,
                  cells |-> (col :> (IF x.kind = "Series" THEN x.elems[i] ELSE x.elems[1]))
                               @@ t.rows[i].cells]])]

\* del frame[col]
DelCol(t, col) ==
    [columns |-> SelectSeq(t.columns, LAMBDA c : c # col),
     rows |-> Seq1([i \in 1..Len(t.rows) |->
                 [idx |-> t.rows[i].idx,
                  cells |-> [c \in (DOMAIN t.rows[i].cells) \ {col} |-> t.rows[i].cells[c]]]])]

\* frame[cols]: the same rows with the columns in the order given
Reorder(t, cols) == [columns |-> cols, rows |-> t.rows]

\* df[mask]: the rows the mask keeps, in order
BoolIndex(t, keep(_)) == [columns |-> t.columns, rows |-> SelectSeq(t.rows, keep)]

---------------------------------------------------------------------------
(* triage_and_score, lines 38-43: the scoring columns *)

ScoreCols == <<"Relevance", "EQORE Fit", "Ease of Use">>

\* pd.to_numeric(..., errors="coerce") on one element: a number is itself, a
\* text is the number it spells, anything else is NaN
ToNumericElem(c) ==
    CASE c.t \in {"int", "float"} -> c
      [] c.t = "bool" -> IntCell(c.n)
      [] c.t = "str" -> (LET f == PyFloat(c.s) IN IF f = ValueError THEN NaN ELSE f)
      [] OTHER -> NaN

to_numeric(x) == Map(x, ToNumericElem)

\* Series.fillna(0); a scalar (a numpy float) has no fillna
HasFillna(x) == x.kind = "Series"
FillnaElem(c) == IF isna(c) THEN FloatCell(0, 1) ELSE c
fillna0(x) == Map(x, FillnaElem)

\* line 40 for one column
NormalizeCol(t, col) == SetCol(t, col, fillna0(to_numeric(Get(t, col))))

\* line 40 raises AttributeError for col: df.get(col) is None, to_numeric gives
\* a scalar NaN, and .fillna is called on it
NormalizeRaises(t, col) == ~HasFillna(to_numeric(Get(t, col)))

\* lines 39-40: the loop over the scoring columns, up to the first that raises
RECURSIVE NormalizeScores(_, _)
NormalizeScores(t, cols) ==
    IF cols = <<>> THEN [raised |-> FALSE, table |-> t]
    ELSE IF NormalizeRaises(t, Head(cols)) THEN [raised |-> TRUE, table |-> t]
    ELSE NormalizeScores(NormalizeCol(t, Head(cols)), Tail(cols))

\* line 43 for one row: Relevance * EQORE Fit * (Ease of Use / 5)
WeightedScoreOf(r, f, e) ==
    IF IsNumber(r) /\ IsNumber(f) /\ IsNumber(e)
    THEN FloatCell(r.n * f.n * e.n, r.d * f.d * (e.d * 5))
    ELSE NaN

WeightedScore(t) ==
    Series([i \in 1..Len(t.rows) |->
        WeightedScoreOf(t.rows[i].cells["Relevance"], t.rows[i].cells["EQORE Fit"],
                        t.rows[i].cells["Ease of Use"])])

---------------------------------------------------------------------------
(* lines 45-51: deadlines and match percentages *)

\* pd.to_datetime(..., errors="coerce") on one element of a column: a text
\* that is a date is its timestamp, any other text and a missing value are
\* NaT.  (Numbers, which pandas reads as nanoseconds since 1970, are not
\* among the inputs drawn.)
ToDatetimeElem(c) == IF c.t = "date" THEN c ELSE NaN

\* pd.to_datetime of the scalar None is None
to_datetime(x) == IF x.kind = "Series" THEN Map(x, ToDatetimeElem) ELSE x

\* the slip of comparing with the clock as read
KeepTimeOfDay(ts) == ts

\* Timestamp.normalize(): the time of day is set to midnight
Normalize(ts) == DateCell(ts.n, 0)

DateLt(a, b) == a.n < b.n \/ (a.n = b.n /\ a.d < b.d)

\* lines 48-51
MatchNumeric(t) ==
    IF HasCol(t, "Match %") THEN Map(Col(t, "Match %"), _parse_match) ELSE Scalar(None)

---------------------------------------------------------------------------
(* lines 53-63: the fatal flags *)

RequiredCols == <<"Grant Name", "Sponsor", "Link">>

MatchLimit == 33

\* line 56 for one row
DeadlinePassed(cells, today) ==
    notna(cells["Deadline"]) /\ DateLt(cells["Deadline"], today)

\* the slip of a limit that 33 itself passes
MatchAboveLimit(cells) ==
    notna(cells["MatchNumeric"]) /\ NumLt(IntCell(MatchLimit), cells["MatchNumeric"])

\* line 58 for one row
MatchTooHigh(cells) ==
    notna(cells["MatchNumeric"]) /\ NumGe(cells["MatchNumeric"], IntCell(MatchLimit))

\* lines 60-62 for one row
MissingCritical(t, cells) ==
    \E k \in 1..Len(RequiredCols) :
        HasCol(t, RequiredCols[k]) /\ isna(cells[RequiredCols[k]])

\* lines 54-62 for one row
FatalOf(t, cells, today) ==
    DeadlinePassed(cells, today) \/ MatchTooHigh(cells) \/ MissingCritical(t, cells)

Fatal(t, today) ==
    Series([i \in 1..Len(t.rows) |-> BoolCell(FatalOf(t, t.rows[i].cells, today))])

\* lines 43-63: the derived columns, on a table whose scores are normalized
\* line 43
SetWeightedScore(t) == SetCol(t, "Weighted Score", WeightedScore(t))

\* line 46
SetDeadline(t) == SetCol(t, "Deadline", to_datetime(Get(t, "Deadline")))

\* lines 48-51
SetMatchNumeric(t) == SetCol(t, "MatchNumeric", MatchNumeric(t))

\* lines 47, 54-63
SetFatal(t, clock) == SetCol(t, "fatal", Fatal(t, Normalize(clock)))

\* lines 43-63: the derived columns, on a table whose scores are normalized
Derive(t, clock) == SetFatal(SetMatchNumeric(SetDeadline(SetWeightedScore(t))), clock)

---------------------------------------------------------------------------
(* lines 65-90: categorisation, ranking, helper columns *)

TopN == 20

\* line 66 for one row
RelevanceZero(cells) == NumEq(cells["Relevance"], IntCell(0))

IsFatal(cells) == cells["fatal"].n = 1

\* the slip of keeping the fatal rows out of Out-of-Scope
OutOfScopeNotFatal(t) == BoolIndex(t, LAMBDA r : RelevanceZero(r.cells) /\ ~IsFatal(r.cells))

\* line 67
OutOfScopeOf(t) == BoolIndex(t, LAMBDA r : RelevanceZero(r.cells))

\* line 69
CandidatesOf(t) == BoolIndex(t, LAMBDA r : ~RelevanceZero(r.cells) /\ ~IsFatal(r.cells))

\* line 79
DirtyFromFatal(t) == BoolIndex(t, LAMBDA r : ~RelevanceZero(r.cells) /\ IsFatal(r.cells))

ScoreOf(r) == r.cells["Weighted Score"]

Reverse(s) == [i \in 1..Len(s) |-> s[Len(s) + 1 - i]]

\* r put into a descending sequence behind every row whose score is not smaller
RECURSIVE InsertDesc(_, _)
InsertDesc(sorted, r) ==
    IF sorted = <<>> THEN <<r>>
    ELSE IF NumLt(ScoreOf(Head(sorted)), ScoreOf(r)) THEN <<r>> \o sorted
    ELSE <<Head(sorted)>> \o InsertDesc(Tail(sorted), r)

\* the slip of leaving the candidates in input order
Unsorted(rows) == rows

\* descending by Weighted Score, rows of equal score in the order given
RECURSIVE StableSortDesc(_)
StableSortDesc(rows) ==
    IF rows = <<>> THEN <<>>
    ELSE InsertDesc(StableSortDesc(SubSeq(rows, 1, Len(rows) - 1)), rows[Len(rows)])

SwapAdjacent(s, p) ==
    [i \in 1..Len(s) |-> IF i = p THEN s[p + 1] ELSE IF i = p + 1 THEN s[p] ELSE s[i]]

\* line 70: sort_values("Weighted Score", ascending=False) with the default
\* kind="quicksort", which does not say in what order rows of equal score come
\* out.  The orders drawn: the stable one, the stable one with one adjacent
\* pair of equal score exchanged, and the one with every run of equal scores
\* in reverse input order.
TiedPairs(s) == {q \in 1..(Len(s) - 1) : NumEq(ScoreOf(s[q]), ScoreOf(s[q + 1]))}

SortOrders(rows) ==
    UNION {{stable} \cup {StableSortDesc(Reverse(rows))}
             \cup {Seq1(SwapAdjacent(stable, p)) : p \in TiedPairs(stable)} :
           stable \in {StableSortDesc(rows)}}

\* frame.head(n)
HeadRows(t, n) ==
    [columns |-> t.columns,
     rows |-> SubSeq(t.rows, 1, IF Len(t.rows) < n THEN Len(t.rows) ELSE n)]

\* frame.iloc[n:]
TailRows(t, n) == [columns |-> t.columns, rows |-> SubSeq(t.rows, n + 1, Len(t.rows))]

\* the slip of ranks counted from 0
RankRangeFromZero(t) == Series([i \in 1..Len(t.rows) |-> IntCell(i - 1)])

\* line 73: clean["Rank"] = range(1, len(clean) + 1)
RankRange(t) == Series([i \in 1..Len(t.rows) |-> IntCell(i)])

\* line 74
RankFirst(columns) == <<"Rank">> \o SelectSeq(columns, LAMBDA c : c # "Rank")

\* the slip of a cut one row later than the one of line 78
CleanOfOneMore(sorted) ==
    LET top == HeadRows(sorted, TopN + 1)
        ranked == SetCol(top, "Rank", RankRange(top))
    IN  Reorder(ranked, RankFirst(ranked.columns))

\* lines 72-75
CleanOf(sorted) ==
    LET top == HeadRows(sorted, TopN)
        ranked == SetCol(top, "Rank", RankRange(top))
    IN  Reorder(ranked, RankFirst(ranked.columns))

\* pd.concat([a, b], ignore_index=True) of two frames with the same columns
Concat(a, b) == [columns |-> a.columns, rows |-> a.rows \o b.rows]

\* the slip of leaving the candidates beyond the top out of Dirty
DirtyOfFatalOnly(sorted, t) == DirtyFromFatal(t)

\* the slip of the two parts of Dirty in the other order
DirtyOfFatalFirst(sorted, t) == Concat(DirtyFromFatal(t), TailRows(sorted, TopN))

\* lines 78-80
DirtyOf(sorted, t) == Concat(TailRows(sorted, TopN), DirtyFromFatal(t))

HelperCols == <<"fatal", "MatchNumeric">>

\* the slip of dropping one helper column only
DropFatalOnly(t) == DelCol(t, HelperCols[1])

\* lines 85-88 for one frame
DropHelpers(t) == DelCol(DelCol(t, HelperCols[1]), HelperCols[2])

---------------------------------------------------------------------------
(* The tables drawn as inputs *)

InputCols ==
    <<"Grant Name", "Sponsor", "Link", "Deadline", "Match %",
      "Relevance", "EQORE Fit", "Ease of Use">>

\* labels a caller's table may carry besides the ones the code reads
ExtraCols == {"Notes", "fatal", "MatchNumeric", "Rank", "Weighted Score"}

Txt(c) == StrCell(<<c>>)

\* the clock: day 1; day 0 is yesterday, day 2 tomorrow; a day has the ticks
\* 0 (midnight) and 1 (later that day)
Clocks == {DateCell(1, 0), DateCell(1, 1)}

Row(idx, columns, cells) == [idx |-> idx, cells |-> [c \in Range(columns) |-> cells[c]]]

\* one row with every cell drawn
RichCells ==
    {[c \in Range(InputCols) \cup ExtraCols |->
        CASE c = "Grant Name" -> req[1]
          [] c = "Sponsor" -> req[2]
          [] c = "Link" -> req[3]
          [] c = "Deadline" -> dl
          [] c = "Match %" -> m
          [] c = "Relevance" -> sc[1]
          [] c = "EQORE Fit" -> sc[2]
          [] c = "Ease of Use" -> sc[3]
          [] OTHER -> Txt("x")] :
      req \in {NaN, Txt("X")} \X {None, Txt("Y")} \X {NaN, Txt("Z")},
      dl \in {NaN, Txt("x"), DateCell(0, 1), DateCell(1, 0), DateCell(1, 1), DateCell(2, 0)},
      m \in {NaN, StrCell(<<"V", "a", "r", ".">>), StrCell(<<"3", "0", "%">>),
             StrCell(<<"3", "2", ".", "9">>), IntCell(33), StrCell(<<"4", "0", "%">>)},
      sc \in {<<IntCell(5), IntCell(4), IntCell(5)>>, <<IntCell(0), IntCell(4), IntCell(5)>>,
              <<Txt("3"), FloatCell(5, 2), IntCell(1)>>, <<Txt("x"), IntCell(4), IntCell(5)>>,
              <<NaN, IntCell(4), IntCell(5)>>, <<IntCell(5), Txt("x"), IntCell(5)>>,
              <<IntCell(5), IntCell(4), None>>}}

ColumnLists ==
    {InputCols}
      \cup {SelectSeq(InputCols, LAMBDA c : c # x) : x \in Range(InputCols)}
      \cup {Append(InputCols, x) : x \in ExtraCols}
      \cup {<<"Rank">> \o InputCols}

\* tables of no row or one row, over every column list
SmallTables ==
    {[columns |-> cols, rows |-> <<>>] : cols \in ColumnLists}
      \cup {[columns |-> cols, rows |-> <<Row(1, cols, cells)>>] :
              cols \in ColumnLists, cells \in RichCells}

\* rows of a long table: every column present, one cell or two set apart
BaseCells ==
    [c \in Range(InputCols) |->
        CASE c = "Grant Name" -> Txt("X")
          [] c = "Sponsor" -> Txt("Y")
          [] c = "Link" -> Txt("Z")
          [] c = "Deadline" -> DateCell(2, 0)
          [] c = "Match %" -> StrCell(<<"3", "0", "%">>)
          [] c = "Relevance" -> IntCell(3)
          [] c = "EQORE Fit" -> IntCell(5)
          [] OTHER -> IntCell(5)]

With(cells, col, c) == [cells EXCEPT ![col] = c]

Kinds == {"hi", "lo", "late", "zero", "zerolate"}

KindCells(k) ==
    CASE k = "hi" -> With(BaseCells, "Relevance", IntCell(5))
      [] k = "lo" -> With(BaseCells, "Relevance", IntCell(1))
      [] k = "late" -> With(With(BaseCells, "Relevance", IntCell(5)), "Deadline", DateCell(0, 1))
      [] k = "zero" -> With(BaseCells, "Relevance", IntCell(0))
      [] OTHER -> With(With(BaseCells, "Relevance", Txt("x")), "Deadline", DateCell(0, 1))

\* the i-th filler row: a candidate, of the lower of two scores when i is odd
\* and of the higher when i is even
FillerCells(i) == With(BaseCells, "Relevance", IntCell(IF i % 2 = 1 THEN 2 ELSE 4))

MinFill == 18
MaxFill == 21
MaxTail == 2

TailKinds == UNION {[1..k -> Kinds] : k \in 0..MaxTail}

\* a long table: n filler rows and a few rows of the kinds above, before them
\* or after them
LongTable(n, tail, tailFirst) ==
    LET cells(i) ==
            IF tailFirst
            THEN (IF i <= Len(tail) THEN KindCells(tail[i]) ELSE FillerCells(i - Len(tail)))
            ELSE (IF i <= n THEN FillerCells(i) ELSE KindCells(tail[i - n]))
    IN  [columns |-> InputCols,
         rows |-> [i \in 1..(n + Len(tail)) |-> Row(i, InputCols, cells(i))]]

LongTables ==
    {LongTable(n, tail, tf) : n \in MinFill..MaxFill, tail \in TailKinds, tf \in BOOLEAN}

Init ==
    /\ \/ df \in SmallTables /\ now \in Clocks
       \/ df \in LongTables /\ now = DateCell(1, 1)
    /\ pc = "start"
    /\ work = EmptyTable
    /\ candidates = EmptyTable
    /\ clean = EmptyTable
    /\ dirty = EmptyTable
    /\ out_of_scope = EmptyTable
    /\ value = None
    /\ parsed = None

---------------------------------------------------------------------------
(* triage_and_score as one step *)

Normalized == NormalizeScores(df, ScoreCols)

\* the slip of working on the table passed in: the caller's table is then the
\* local one, as the call left it
CallersTableShared(before, local) == local

\* line 36, df = df.copy(): the local df is a table of its own, so what lines
\* 40-63 assign to its columns does not reach the caller's table, which is
\* after the call what it was before
CallersTable(before, local) == before

\* the call returns the three tables
TriageReturns ==
    /\ pc = "start"
    /\ ~Normalized.raised
    /\ \E t \in {Derive(Normalized.table, now)} :
       \E cands \in {CandidatesOf(t)} :
       \E order \in SortOrders(cands.rows) :
       \E sorted \in {[columns |-> cands.columns, rows |-> order]} :
          /\ work' = t
          /\ candidates' = sorted
          /\ clean' = DropHelpers(CleanOf(sorted))
          /\ dirty' = DropHelpers(DirtyOf(sorted, t))
          /\ out_of_scope' = DropHelpers(OutOfScopeOf(t))
          /\ df' = CallersTable(df, t)
    /\ pc' = "returned"
    /\ UNCHANGED <<now, value, parsed>>

\* the call ends with the AttributeError of line 40 and returns nothing
TriageRaises ==
    /\ pc = "start"
    /\ Normalized.raised
    /\ work' = Normalized.table
    /\ df' = CallersTable(df, Normalized.table)
    /\ pc' = "raised"
    /\ UNCHANGED <<now, candidates, clean, dirty, out_of_scope, value, parsed>>

Next == TriageReturns \/ TriageRaises

Spec == Init /\ [][Next]_vars

---------------------------------------------------------------------------
(* Properties of the tables returned *)

Returned == pc = "returned"

Ids(t) == {t.rows[i].idx : i \in 1..Len(t.rows)}

\* no row of the caller's table is twice in t
NoRepeat(t) == \A i, j \in 1..Len(t.rows) : t.rows[i].idx = t.rows[j].idx => i = j

\* the row of work that came from the caller's row idx
WorkCells(idx) == work.rows[idx].cells

WorkFatal(idx) == WorkCells(idx)["fatal"].n = 1

WorkZero(idx) == NumEq(WorkCells(idx)["Relevance"], IntCell(0))

\* the place of the caller's row idx in the sorted candidates
Position(idx) == CHOOSE p \in 1..Len(candidates.rows) : candidates.rows[p].idx = idx

\* C1: when the call returns, the three tables together hold as many rows as
\* the caller's table, every row of it is in one of them, and none is in two
\* of them or twice in one.
C1_Partition ==
    Returned =>
        /\ Len(clean.rows) + Len(dirty.rows) + Len(out_of_scope.rows) = Len(df.rows)
        /\ Ids(clean) \cup Ids(dirty) \cup Ids(out_of_scope) = 1..Len(df.rows)
        /\ Ids(clean) \cap Ids(dirty) = {}
        /\ Ids(clean) \cap Ids(out_of_scope) = {}
        /\ Ids(dirty) \cap Ids(out_of_scope) = {}
        /\ NoRepeat(clean) /\ NoRepeat(dirty) /\ NoRepeat(out_of_scope)

C1_Witness ==
    /\ Returned
    /\ Len(df.rows) > TopN
    /\ Len(clean.rows) = TopN
    /\ \E i \in 1..Len(dirty.rows) : ~WorkFatal(dirty.rows[i].idx)
    /\ \E i \in 1..Len(dirty.rows) : WorkFatal(dirty.rows[i].idx)
    /\ out_of_scope.rows # <<>>

\* what the cell of the caller's Relevance column is worth after coercion: 0
\* for a missing value, for a text that is no number, and for the number 0
CoercesToZero(c) ==
    CASE c.t \in {"int", "float"} -> c.n = 0
      [] c.t = "str" -> PyFloat(c.s) = ValueError \/ PyFloat(c.s).n = 0
      [] OTHER -> TRUE

\* C2: a row is in Out-of-Scope exactly when its Relevance is 0 after
\* coercion (missing and non-numeric values included), and such a row is in
\* neither Clean nor Dirty, whatever its other cells are.
C2_RelevanceZero ==
    Returned =>
        \A i \in 1..Len(df.rows) :
            LET zero == CoercesToZero(df.rows[i].cells["Relevance"])
            IN  /\ zero <=> i \in Ids(out_of_scope)
                /\ zero => i \notin Ids(clean) \cup Ids(dirty)

C2_Witness ==
    /\ Returned
    /\ \E i \in 1..Len(df.rows) :
        /\ df.rows[i].cells["Relevance"].t \in {"nan", "str"}
        /\ WorkFatal(i)
        /\ i \in Ids(out_of_scope)

\* C3: the candidates are the rows of non-zero Relevance that are not fatal,
\* in descending order of Weighted Score; a row of non-zero Relevance is in
\* Dirty exactly when it is fatal or its place among them is beyond 20, and
\* in Clean exactly when it is not fatal and its place is at most 20.
C3_FatalOrOverflow ==
    Returned =>
        /\ Ids(candidates) = {i \in 1..Len(df.rows) : ~WorkZero(i) /\ ~WorkFatal(i)}
        /\ NoRepeat(candidates)
        /\ \A p \in 1..(Len(candidates.rows) - 1) :
              ~NumLt(ScoreOf(candidates.rows[p]), ScoreOf(candidates.rows[p + 1]))
        /\ \A i \in 1..Len(df.rows) :
              ~WorkZero(i) =>
                  /\ i \in Ids(dirty) <=> (WorkFatal(i) \/ Position(i) > 20)
                  /\ i \in Ids(clean) <=> (~WorkFatal(i) /\ Position(i) <= 20)

C3_Witness ==
    /\ Returned
    /\ Len(candidates.rows) > 20
    /\ candidates.rows[20].idx \in Ids(clean)
    /\ candidates.rows[21].idx \in Ids(dirty)
    /\ \E k \in 1..Len(df.rows) : ~WorkZero(k) /\ WorkFatal(k) /\ k \in Ids(dirty)

\* the caller's cell of row i in column col, None when there is no such column
InputCell(i, col) == IF HasCol(df, col) THEN df.rows[i].cells[col] ELSE None

\* the deadline of row i as parsed: a timestamp, or missing
ParsedDeadline(i) == WorkCells(i)["Deadline"]

\* the match percentage of row i as parsed: a number, or missing
ParsedMatch(i) == WorkCells(i)["MatchNumeric"]

DeadlineBeforeToday(i) == ParsedDeadline(i).t = "date" /\ ParsedDeadline(i).n < now.n

MatchAtLeast33(i) ==
    IsNumber(ParsedMatch(i)) /\ ParsedMatch(i).n >= 33 * ParsedMatch(i).d

RequiredMissing(i) ==
    \E col \in {"Grant Name", "Sponsor", "Link"} :
        col \in Range(df.columns) /\ df.rows[i].cells[col].t \in {"none", "nan"}

\* C4: a row is flagged fatal exactly when its parsed Deadline is a day
\* before today, or its parsed match percentage is a number >= 33, or one of
\* Grant Name, Sponsor, Link is a column of the input and is null in the row;
\* a required column that the input does not have flags no row.
C4_FatalIff ==
    Returned =>
        \A i \in 1..Len(df.rows) :
            WorkFatal(i) <=> (DeadlineBeforeToday(i) \/ MatchAtLeast33(i) \/ RequiredMissing(i))

C4_Witness ==
    /\ Returned
    /\ \E i \in 1..Len(df.rows) :
        /\ WorkFatal(i)
        /\ NumEq(ParsedMatch(i), IntCell(33))
        /\ ~DeadlineBeforeToday(i) /\ ~RequiredMissing(i)
    /\ \E col \in {"Grant Name", "Sponsor", "Link"} : col \notin Range(df.columns)

\* row i has no flaw but, possibly, its deadline
OnlyDeadlineCounts(i) == ~MatchAtLeast33(i) /\ ~RequiredMissing(i)

\* C5: deadlines are compared with today by calendar day. Of the rows with
\* no other flaw: one whose Deadline is today (at any time of day, and at any
\* time of the clock) is not fatal, one whose Deadline is the day before is
\* fatal, and one whose Deadline is missing, is no date, or has no column is
\* not fatal.
C5_DeadlineBoundary ==
    Returned =>
        \A i \in 1..Len(df.rows) :
            LET dl == InputCell(i, "Deadline")
            IN  OnlyDeadlineCounts(i) =>
                  /\ (dl.t = "date" /\ dl.n = now.n) => ~WorkFatal(i)
                  /\ (dl.t = "date" /\ dl.n = now.n - 1) => WorkFatal(i)
                  /\ dl.t # "date" => ~WorkFatal(i)

C5_Witness ==
    /\ Returned
    /\ now.d > 0
    /\ \E i \in 1..Len(df.rows) :
        /\ OnlyDeadlineCounts(i)
        /\ InputCell(i, "Deadline") = DateCell(now.n, 0)
        /\ ~WorkFatal(i)

\* the rows of Dirty that are not fatal: the candidates left out of Clean
Overflow == SelectSeq(dirty.rows, LAMBDA r : ~WorkFatal(r.idx))

\* C6: in Clean, a row of smaller Rank has a Weighted Score at least as great
\* as a row of greater Rank, and no candidate left out of Clean has a
\* Weighted Score greater than a row of Clean.
C6_RankMonotone ==
    Returned =>
        /\ \A i, j \in 1..Len(clean.rows) :
              clean.rows[i].cells["Rank"].n < clean.rows[j].cells["Rank"].n
                  => NumGe(ScoreOf(clean.rows[i]), ScoreOf(clean.rows[j]))
        /\ \A i \in 1..Len(clean.rows), k \in 1..Len(Overflow) :
              NumGe(ScoreOf(clean.rows[i]), ScoreOf(Overflow[k]))

C6_Witness ==
    /\ Returned
    /\ Overflow # <<>>
    /\ \E i, j \in 1..Len(clean.rows) :
          /\ i < j
          /\ NumLt(ScoreOf(clean.rows[j]), ScoreOf(clean.rows[i]))
          /\ clean.rows[j].idx < clean.rows[i].idx
    /\ \E i \in 1..Len(clean.rows) : NumLt(ScoreOf(Overflow[1]), ScoreOf(clean.rows[i]))

NumCandidates == Cardinality({i \in 1..Len(df.rows) : ~WorkZero(i) /\ ~WorkFatal(i)})

\* C7: with n non-fatal rows of non-zero Relevance, Clean has min(n, 20)
\* rows, the Rank of its k-th row is k, and Rank is its first column (and
\* occurs once).
C7_DenseRank ==
    Returned =>
        /\ Len(clean.rows) = (IF NumCandidates < 20 THEN NumCandidates ELSE 20)
        /\ \A k \in 1..Len(clean.rows) : clean.rows[k].cells["Rank"] = IntCell(k)
        /\ clean.columns[1] = "Rank"
        /\ \A c \in 2..Len(clean.columns) : clean.columns[c] # "Rank"

C7_Witness ==
    /\ Returned
    /\ NumCandidates > 20
    /\ Len(clean.rows) = 20
    /\ clean.rows[20].cells["Rank"] = IntCell(20)

---------------------------------------------------------------------------
(* Properties of _parse_match *)

Thirty == {StrCell(<<"3", "0", "%">>), StrCell(<<"3", "0">>), StrCell(<<"3", "0", ".", "0">>)}

\* the text, trimmed, begins with "var" in some letter case
BeginsWithVar(text) ==
    LET t == Strip(text)
    IN  Len(t) >= 3 /\ t[1] \in {"v", "V"} /\ t[2] \in {"a", "A"} /\ t[3] \in {"r", "R"}

\* the text with '%' and ',' removed is no number
NotANumber(text) == PyFloat(RemoveChar(RemoveChar(text, "%"), ",")) = ValueError

\* C8: _parse_match always ends with null or a number, never with the
\* ValueError of float(): "30%", "30" and "30.0" give 30; null, NaN and the
\* empty text give null; a text that begins, trimmed, with "var" in any letter
\* case gives null; a text that is no number once '%' and ',' are removed
\* gives null.
C8_ParseMatch ==
    pc = "parsed" =>
        /\ parsed = None \/ parsed.t = "float"
        /\ value \in Thirty => NumEq(parsed, IntCell(30))
        /\ value \in {None, NaN, StrCell(<<>>)} => parsed = None
        /\ (value.t = "str" /\ BeginsWithVar(value.s)) => parsed = None
        /\ (value.t = "str" /\ NotANumber(value.s)) => parsed = None

C8_Witness ==
    /\ pc = "parsed"
    /\ value = StrCell(<<"3", "0", "%">>)
    /\ parsed = FloatCell(30, 1)

---------------------------------------------------------------------------
(* Properties of the scoring columns and of the columns returned *)

\* the caller's cell fails numeric parsing (or the column is not there)
FailsNumeric(c) == ~IsNumber(c) /\ (c.t = "str" => PyFloat(c.s) = ValueError)

ScoresCoerced ==
    \A i \in 1..Len(df.rows) :
        /\ \A col \in {"Relevance", "EQORE Fit", "Ease of Use"} :
              /\ IsNumber(WorkCells(i)[col])
              /\ FailsNumeric(InputCell(i, col)) => WorkCells(i)[col].n = 0
        /\ IsNumber(WorkCells(i)["Weighted Score"])
        /\ (\E col \in {"Relevance", "EQORE Fit", "Ease of Use"} :
                FailsNumeric(InputCell(i, col))) => WorkCells(i)["Weighted Score"].n = 0

\* C9: the call does not raise, also when a scoring column is absent; every
\* Relevance, EQORE Fit and Ease of Use that fails numeric parsing is 0, and
\* Weighted Score is a number in every row, 0 when one of the three was
\* coerced to 0.
C9_ScoresNullSafe ==
    /\ pc # "raised"
    /\ Returned => ScoresCoerced

\* what of C9 the code does: with the three scoring columns present the call
\* returns and the scores are coerced as stated
C9_WithScoreColumns ==
    /\ pc = "raised" => \E col \in {"Relevance", "EQORE Fit", "Ease of Use"} : ~HasCol(df, col)
    /\ Returned => ScoresCoerced

ColSet(t) == Range(t.columns)

\* the columns of t are cols, each once, and every row has a cell for each
HasColumns(t, cols) ==
    /\ ColSet(t) = cols
    /\ Len(t.columns) = Cardinality(cols)
    /\ \A i \in 1..Len(t.rows) : DOMAIN t.rows[i].cells = cols

InputColsKept == ColSet(df) \ {"fatal", "MatchNumeric"}

\* C10 as stated: the columns returned are the input's columns without fatal
\* and MatchNumeric, plus Weighted Score, plus Rank on Clean, and no other.
C10_ColumnsExact ==
    Returned =>
        /\ HasColumns(clean, InputColsKept \cup {"Weighted Score", "Rank"})
        /\ HasColumns(dirty, InputColsKept \cup {"Weighted Score"})
        /\ HasColumns(out_of_scope, InputColsKept \cup {"Weighted Score"})

\* C10 amended: the columns returned are the input's columns without fatal
\* and MatchNumeric, plus Weighted Score, plus Deadline (which the call adds
\* when the input has none), plus Rank on Clean, and no other.
C10_Columns ==
    Returned =>
        /\ HasColumns(clean, InputColsKept \cup {"Weighted Score", "Deadline", "Rank"})
        /\ HasColumns(dirty, InputColsKept \cup {"Weighted Score", "Deadline"})
        /\ HasColumns(out_of_scope, InputColsKept \cup {"Weighted Score", "Deadline"})

C10_Witness ==
    /\ Returned
    /\ ~HasCol(df, "Deadline")
    /\ HasCol(clean, "Deadline")
    /\ Len(clean.rows) = 1
    /\ clean.rows[1].cells["Deadline"] = None

---------------------------------------------------------------------------
(* The caller's table, ties, and the order of Dirty *)

C12_StableTies ==
    Returned =>
        /\ \A i, j \in 1..Len(clean.rows) :
              (/\ NumEq(ScoreOf(clean.rows[i]), ScoreOf(clean.rows[j]))
               /\ clean.rows[i].idx < clean.rows[j].idx)
                  => clean.rows[i].cells["Rank"].n < clean.rows[j].cells["Rank"].n
        /\ \A i \in 1..Len(clean.rows), k \in 1..Len(Overflow) :
              NumEq(ScoreOf(clean.rows[i]), ScoreOf(Overflow[k]))
                  => clean.rows[i].idx < Overflow[k].idx

\* the number of candidates left out of Clean
NumOverflow == IF Len(candidates.rows) > 20 THEN Len(candidates.rows) - 20 ELSE 0

\* C13: Dirty lists first the candidates of places 21 and beyond, in the
\* order of those places (descending Weighted Score), then the fatal rows of
\* non-zero Relevance in their input order; no overflow row comes after a
\* fatal row.
C13_DirtyOrder ==
    Returned =>
        /\ \A k \in 1..Len(dirty.rows) :
              IF k <= NumOverflow
              THEN /\ dirty.rows[k].idx = candidates.rows[20 + k].idx
                   /\ ~WorkFatal(dirty.rows[k].idx)
              ELSE WorkFatal(dirty.rows[k].idx) /\ ~WorkZero(dirty.rows[k].idx)
        /\ \A j, k \in 1..Len(dirty.rows) :
              j < k =>
                  /\ ~(WorkFatal(dirty.rows[j].idx) /\ ~WorkFatal(dirty.rows[k].idx))
                  /\ (k <= NumOverflow) => NumGe(ScoreOf(dirty.rows[j]), ScoreOf(dirty.rows[k]))
                  /\ (j > NumOverflow) => dirty.rows[j].idx < dirty.rows[k].idx

C13_Witness ==
    /\ Returned
    /\ NumOverflow >= 1
    /\ Len(dirty.rows) >= NumOverflow + 2
    /\ ~WorkFatal(dirty.rows[1].idx)
    /\ WorkFatal(dirty.rows[Len(dirty.rows)].idx)
    /\ dirty.rows[Len(dirty.rows)].idx < dirty.rows[1].idx

====
